---- MODULE Spec2Model ----
(***************************************************************************)
(* Model of src/app.py: the eBay price validation assistant.               *)
(*                                                                         *)
(* Two parts of the program are modelled:                                  *)
(*   - get_products, the marketplace search client, as an operator over    *)
(*     the query, the SERPAPI credential and the provider's HTTP answer;   *)
(*   - process_query / call_functions, the polling loop that drives one    *)
(*     Run of the conversation engine per query and dispatches the tool    *)
(*     calls the engine asks for.                                          *)
(*                                                                         *)
(* The conversation engine and the search provider are the environment:    *)
(* the engine keeps the thread's messages and the runs, and moves a run    *)
(* through its statuses on its own.  The program puts no condition on the  *)
(* engine, so the engine is modelled as taking what it is sent:            *)
(*   - messages.create and runs.create always succeed, also while another  *)
(*     run of the thread is active;                                        *)
(*   - a run goes queued -> in_progress -> requires_action or completed;   *)
(*     it may fail, be cancelled or expire while queued or in progress;    *)
(*   - submit_tool_outputs on a run in requires_action is taken as sent    *)
(*     and queues the run again in the same step; on any other run it is   *)
(*     refused and the call raises;                                        *)
(*   - the assistant's message is appended when the run completes.         *)
(***************************************************************************)
EXTENDS Integers, Sequences, FiniteSets, TLC

(***************************************************************************)
(* Bounds of the model.                                                    *)
(***************************************************************************)
\* longest result list the search provider answers with
MaxResults == 4
\* status fetches (runs.retrieve) over all callers together
MaxPolls == 5
\* tool calls the engine asks for, over all batches and runs together
MaxToolCalls == 2

(***************************************************************************)
(* Python values.                                                          *)
(***************************************************************************)
\* Python's None and a str value, kept apart by their type
None == [type |-> "NoneType"]
Str(s) == [type |-> "str", value |-> s]

\* dict.get(key, default)
Get(d, key, default) == IF key \in DOMAIN d THEN d[key] ELSE default

\* str() of a value inside an f-string
Format(v) == IF v = None THEN "None" ELSE v.value

\* a faulty variant of Take: one element too many, seq[:n + 1]
Take_one_more(seq, n) == SubSeq(seq, 1, IF Len(seq) < n + 1 THEN Len(seq) ELSE n + 1)

\* seq[:n]
Take(seq, n) == SubSeq(seq, 1, IF Len(seq) < n THEN Len(seq) ELSE n)

(***************************************************************************)
(* The search provider's answers (requests.get).                           *)
(***************************************************************************)
\* the listings a provider result list is made of: with a price, without a
\* price field, and with a price field that holds no raw string
Listings ==
    { [title |-> Str("Sandal A"), price |-> [raw |-> Str("$10.00")],
       link |-> Str("https://ebay.com/a"), thumbnail |-> Str("https://img/a")],
      [title |-> Str("Sandal B"),
       link |-> Str("https://ebay.com/b"), thumbnail |-> Str("https://img/b")],
      [title |-> Str("Sandal C"), price |-> << >>,
       link |-> Str("https://ebay.com/c"), thumbnail |-> Str("https://img/c")] }

ResultLists == UNION { [1..n -> Listings] : n \in 0..MaxResults }

\* the JSON bodies of an answer: with and without the organic_results key
Bodies == { [organic_results |-> l] : l \in ResultLists } \cup { << >> }

\* requests.get either raises (the provider is unreachable) or answers with a
\* status code and a body
Responses ==
    { [raises |-> e] : e \in {"ConnectionError", "Timeout"} }
    \cup { [raises |-> "", status_code |-> s, json |-> b] :
             s \in {200, 404, 503}, b \in Bodies }

\* the exception classes that derive from requests.RequestException
RequestException == {"ConnectionError", "Timeout", "HTTPError"}

Queries == {"gladiator sandals", "red mug"}

(***************************************************************************)
(* get_products: the marketplace search client.                            *)
(***************************************************************************)
\* the values os.getenv("SERPAPI") gives: unset, set but empty, set
Credentials == {None, Str(""), Str("serp-key")}

\* Python's truth value of None or a str
Truthy(v) == v # None /\ v.value # ""

\* response.raise_for_status(): the exception it raises, "" for none
raise_for_status(response) ==
    IF response.status_code >= 400 /\ response.status_code < 600
    THEN "HTTPError" ELSE ""

\* a faulty variant of listing_block: the price of a listing without one is
\* left blank
listing_block_blank_price(result) ==
    LET title == Get(result, "title", None)
        price == Get(Get(result, "price", << >>), "raw", Str(""))
        link  == Get(result, "link", None)
        image == Get(result, "thumbnail", None)
    IN  << "- **Title:** [" \o Format(title) \o "](" \o Format(link) \o ")\n",
           "  - **Price:** " \o Format(price) \o "\n",
           "  - **Link:** [View on eBay](" \o Format(link) \o ")\n",
           "  - **Image:** ![Image](" \o Format(image) \o ")\n\n" >>

\* the four pieces the loop body appends to markdown_output for one result
listing_block(result) ==
    LET title == Get(result, "title", None)
        price == Get(Get(result, "price", << >>), "raw", Str("N/A"))
        link  == Get(result, "link", None)
        image == Get(result, "thumbnail", None)
    IN  << "- **Title:** [" \o Format(title) \o "](" \o Format(link) \o ")\n",
           "  - **Price:** " \o Format(price) \o "\n",
           "  - **Link:** [View on eBay](" \o Format(link) \o ")\n",
           "  - **Image:** ![Image](" \o Format(image) \o ")\n\n" >>

\* markdown_output after the for loop over the given results: the sequence of
\* the pieces appended, in the order appended (their concatenation is the text)
RECURSIVE markdown_loop(_)
markdown_loop(results) ==
    IF results = << >> THEN << >>
    ELSE listing_block(Head(results)) \o markdown_loop(Tail(results))

\* the HTTP GET get_products issues
search_request(query, api_key) ==
    [url |-> "https://serpapi.com/search.json",
     params |-> [engine |-> "ebay", _nkw |-> query,
                 ebay_domain |-> "ebay.com", api_key |-> api_key.value]]

\* the body of the try block: the exception it raises ("" for none) and the
\* value it returns
get_products_try(response) ==
    IF response.raises # "" THEN [raised |-> response.raises, ret |-> None]
    ELSE IF raise_for_status(response) # ""
    THEN [raised |-> raise_for_status(response), ret |-> None]
    ELSE LET data == response.json
             top_3_results == Take(Get(data, "organic_results", << >>), 3)
         IN  [raised |-> "", ret |-> [type |-> "markdown",
                                      pieces |-> markdown_loop(top_3_results)]]

\* a faulty variant of get_products_catches: only HTTP errors are caught
get_products_catches_http_only(exc) == exc = "HTTPError"

\* the except clause: which exceptions of the try block are caught
get_products_catches(exc) == exc \in RequestException

\* a faulty variant of get_products: a missing credential raises, as the
\* missing OpenAI key does at start-up
get_products_raises_without_key(query, api_key, response) ==
    IF ~Truthy(api_key)
    THEN [ret |-> None, raised |-> "EnvironmentError", requests |-> << >>]
    ELSE LET body == get_products_try(response)
             sent == << search_request(query, api_key) >>
         IN  IF body.raised # "" /\ get_products_catches(body.raised)
             THEN [ret |-> None, raised |-> "", requests |-> sent]
             ELSE [ret |-> body.ret, raised |-> body.raised, requests |-> sent]

\* get_products(query) with the credential api_key, when the provider answers
\* this call's request with response: the value returned, the exception that
\* leaves the function ("" for none) and the HTTP requests issued
get_products(query, api_key, response) ==
    IF ~Truthy(api_key)
    THEN [ret |-> None, raised |-> "", requests |-> << >>]
    ELSE LET body == get_products_try(response)
             sent == << search_request(query, api_key) >>
         IN  IF body.raised # "" /\ get_products_catches(body.raised)
             THEN [ret |-> None, raised |-> "", requests |-> sent]
             ELSE [ret |-> body.ret, raised |-> body.raised, requests |-> sent]

(***************************************************************************)
(* The conversation engine's data, as the program sees it.                 *)
(***************************************************************************)
\* the concurrent UI callers of process_query, and the query each one asks
Callers == {"c1", "c2"}
user_query == [c \in Callers |-> IF c = "c1" THEN "gladiator sandals" ELSE "red mug"]

Active == {"queued", "in_progress", "requires_action"}
Failure == {"failed", "cancelled", "expired"}
Statuses == Active \cup {"completed"} \cup Failure

\* the function names the engine may ask for; only search_ebay is handled
FunctionNames == {"search_ebay", "get_weather"}

\* the arguments strings the engine may send with a tool call
ArgumentStrings == {"{\"query\": \"red mug\"}", "{}", "red mug"}

\* json.loads on an arguments string: the exception raised ("" for none) and
\* the dict parsed
json_loads(s) ==
    IF s = "{\"query\": \"red mug\"}"
    THEN [raised |-> "", value |-> [query |-> "red mug"]]
    ELSE IF s = "{}"
    THEN [raised |-> "", value |-> << >>]
    ELSE [raised |-> "JSONDecodeError", value |-> << >>]

\* the function parts of the tool calls of one batch: a search, a search
\* whose arguments are not JSON, and a function the program does not handle
FunctionCalls ==
    { [name |-> "search_ebay", arguments |-> "{\"query\": \"red mug\"}"],
      [name |-> "search_ebay", arguments |-> "red mug"],
      [name |-> "get_weather", arguments |-> "{\"query\": \"red mug\"}"],
      [name |-> "get_weather", arguments |-> "red mug"] }
Batches == UNION { [1..n -> FunctionCalls] : n \in 1..MaxToolCalls }

\* the text of the assistant message a run ends with
reply_text(run_id) == "reply of run " \o ToString(run_id)

\* the answers of the search provider the dispatch loop is run against: the
\* provider unreachable, an HTTP error, and a full result list
DispatchResponses ==
    { [raises |-> "ConnectionError"],
      [raises |-> "", status_code |-> 404, json |-> << >>],
      [raises |-> "", status_code |-> 200,
       json |-> [organic_results |->
                   [i \in 1..MaxResults |->
                      [title |-> Str("Sandal A"), price |-> [raw |-> Str("$10.00")],
                       link |-> Str("https://ebay.com/a"),
                       thumbnail |-> Str("https://img/a")]]]] }

VARIABLES
    SERPAPI,              \* os.getenv("SERPAPI")
    conversation_thread,  \* the messages of the one thread, oldest first
    runs,                 \* the runs of the thread, by run id
    issued,               \* every batch of tool calls the engine asked for
    submissions,          \* every submit_tool_outputs call the engine got
    pc,                   \* where each caller is in process_query
    assistant_response,   \* per caller: the id of the run it created
    response_status,      \* per caller: the run as last retrieved
    required_actions,     \* per caller: the tool calls being dispatched
    tool_outputs,         \* per caller: the outputs collected so far
    action_index,         \* per caller: the tool call the for loop is at
    requests_sent,        \* the HTTP requests get_products has issued
    returned,             \* per caller: the value returned or the error raised
    trace,                \* per caller: the engine calls it made, in order
    polls,                \* the status fetches made so far, over all callers
    search_call           \* a single call of get_products on its own

vars == << SERPAPI, conversation_thread, runs, issued, submissions, pc,
           assistant_response, response_status, required_actions,
           tool_outputs, action_index, requests_sent, returned, trace, polls,
           search_call >>

engine_vars == << conversation_thread, runs, issued, submissions >>

NoRun == [status |-> "none", required_action |-> << >>]
NoSearch == [state |-> "none"]

\* before any query: an empty thread, no run, every caller idle
NoConversation ==
    /\ conversation_thread = << >>
    /\ runs = << >>
    /\ issued = << >>
    /\ submissions = << >>
    /\ pc = [c \in Callers |-> "idle"]
    /\ assistant_response = [c \in Callers |-> 0]
    /\ response_status = [c \in Callers |-> NoRun]
    /\ required_actions = [c \in Callers |-> << >>]
    /\ tool_outputs = [c \in Callers |-> << >>]
    /\ action_index = [c \in Callers |-> 0]
    /\ requests_sent = 0
    /\ returned = [c \in Callers |-> [kind |-> "none"]]
    /\ trace = [c \in Callers |-> << >>]
    /\ polls = 0

Init ==
    /\ SERPAPI \in {None, Str("serp-key")}
    /\ NoConversation
    /\ search_call = NoSearch

caller_vars == << pc, assistant_response, response_status, required_actions,
                 tool_outputs, action_index, requests_sent, returned, trace,
                 polls >>

(***************************************************************************)
(* The conversation engine (environment): it moves a run through its       *)
(* statuses, asks for tool calls and appends the assistant's message.      *)
(***************************************************************************)
\* the tool calls of a batch, each with a call id of its own
tool_calls_of(run_id, n, batch) ==
    [i \in 1..Len(batch) |->
       [id |-> << "call", run_id, n, i >>, type |-> "function",
        function |-> batch[i]]]

set_status(run_id, status, required_action) ==
    runs' = [runs EXCEPT ![run_id] =
               [status |-> status, required_action |-> required_action]]

engine_start(run_id) ==
    /\ runs[run_id].status = "queued"
    /\ set_status(run_id, "in_progress", << >>)
    /\ UNCHANGED << SERPAPI, conversation_thread, issued, submissions,
                    caller_vars, search_call >>

\* the tool calls asked for so far
RECURSIVE tool_calls_issued(_)
tool_calls_issued(batches) ==
    IF batches = << >> THEN 0
    ELSE Len(Head(batches).tool_calls) + tool_calls_issued(Tail(batches))

engine_requires_action(run_id, batch) ==
    /\ runs[run_id].status = "in_progress"
    /\ tool_calls_issued(issued) + Len(batch) <= MaxToolCalls
    /\ LET calls == tool_calls_of(run_id, Len(issued) + 1, batch)
       IN  /\ set_status(run_id, "requires_action", calls)
           /\ issued' = Append(issued, [run_id |-> run_id, tool_calls |-> calls])
    /\ UNCHANGED << SERPAPI, conversation_thread, submissions, caller_vars,
                    search_call >>

engine_complete(run_id) ==
    /\ runs[run_id].status = "in_progress"
    /\ set_status(run_id, "completed", << >>)
    /\ conversation_thread' =
         Append(conversation_thread,
                [role |-> "assistant", text |-> reply_text(run_id),
                 run_id |-> run_id])
    /\ UNCHANGED << SERPAPI, issued, submissions, caller_vars, search_call >>

engine_fail(run_id, status) ==
    /\ runs[run_id].status \in {"queued", "in_progress"}
    /\ set_status(run_id, status, << >>)
    /\ UNCHANGED << SERPAPI, conversation_thread, issued, submissions,
                    caller_vars, search_call >>

\* runs.submit_tool_outputs as the engine takes it: a run that waits for tool
\* outputs is queued again, any other run refuses them
engine_accepts(run_id) ==
    /\ run_id \in 1..Len(runs)
    /\ runs[run_id].status = "requires_action"

(***************************************************************************)
(* process_query and call_functions, one caller at a time.                 *)
(***************************************************************************)
log(c, event) == trace' = [trace EXCEPT ![c] = Append(@, event)]

goto(c, label) == pc' = [pc EXCEPT ![c] = label]

\* a faulty variant of raise: the loop catches the exception and polls on
raise_caught(c, error) ==
    /\ goto(c, "runs.retrieve")
    /\ UNCHANGED returned

\* an exception leaves process_query
raise(c, error) ==
    /\ goto(c, "raised")
    /\ returned' = [returned EXCEPT ![c] = [kind |-> "error", error |-> error]]

\* a faulty variant of messages_create: the message is sent twice
messages_create_twice(c) ==
    /\ pc[c] = "idle"
    /\ conversation_thread' =
         conversation_thread \o
           << [role |-> "user", text |-> user_query[c], run_id |-> 0],
              [role |-> "user", text |-> user_query[c], run_id |-> 0] >>
    /\ log(c, [op |-> "messages.create", content |-> user_query[c]])
    /\ goto(c, "runs.create")
    /\ UNCHANGED << SERPAPI, runs, issued, submissions, assistant_response,
                    response_status, required_actions, tool_outputs,
                    action_index, requests_sent, returned, polls, search_call >>

\* threads.messages.create(role="user", content=user_query)
messages_create(c) ==
    /\ pc[c] = "idle"
    /\ conversation_thread' =
         Append(conversation_thread,
                [role |-> "user", text |-> user_query[c], run_id |-> 0])
    /\ log(c, [op |-> "messages.create", content |-> user_query[c]])
    /\ goto(c, "runs.create")
    /\ UNCHANGED << SERPAPI, runs, issued, submissions, assistant_response,
                    response_status, required_actions, tool_outputs,
                    action_index, requests_sent, returned, polls, search_call >>

\* a faulty variant of runs_create: the run is kept in a module-level name
\* that every caller reads
runs_create_global(c) ==
    /\ pc[c] = "runs.create"
    /\ runs' = Append(runs, [status |-> "queued", required_action |-> << >>])
    /\ assistant_response' = [d \in Callers |-> Len(runs) + 1]
    /\ log(c, [op |-> "runs.create", run_id |-> Len(runs) + 1])
    /\ goto(c, "runs.retrieve")
    /\ UNCHANGED << SERPAPI, conversation_thread, issued, submissions,
                    response_status, required_actions, tool_outputs,
                    action_index, requests_sent, returned, polls, search_call >>

\* threads.runs.create(...)
runs_create(c) ==
    /\ pc[c] = "runs.create"
    /\ runs' = Append(runs, [status |-> "queued", required_action |-> << >>])
    /\ assistant_response' = [assistant_response EXCEPT ![c] = Len(runs) + 1]
    /\ log(c, [op |-> "runs.create", run_id |-> Len(runs) + 1])
    /\ goto(c, "runs.retrieve")
    /\ UNCHANGED << SERPAPI, conversation_thread, issued, submissions,
                    response_status, required_actions, tool_outputs,
                    action_index, requests_sent, returned, polls, search_call >>

\* faulty variants of the two tests below: dispatch on every status but
\* completed, and take every terminal status for completed
status_not_completed(status) == status # "completed"
status_terminal(status) == status \in {"completed", "failed", "cancelled", "expired"}

\* a faulty variant of status_completed: the status is compared with a
\* string no run ever has
status_complete(status) == status = "complete"

\* the two tests of the loop body on the status retrieved
status_requires_action(status) == status = "requires_action"
status_completed(status) == status = "completed"

\* one iteration of the while loop up to its branches: sleep, runs.retrieve,
\* then call_functions is entered, or messages.list, or the loop continues
runs_retrieve(c) ==
    /\ pc[c] = "runs.retrieve"
    /\ polls < MaxPolls
    /\ polls' = polls + 1
    /\ LET run == runs[assistant_response[c]]
           fetched == [op |-> "runs.retrieve", run_id |-> assistant_response[c],
                       status |-> run.status]
       IN  /\ response_status' = [response_status EXCEPT ![c] = run]
           /\ IF status_requires_action(run.status)
              THEN /\ goto(c, "call_functions")
                   /\ required_actions' =
                        [required_actions EXCEPT ![c] = run.required_action]
                   /\ tool_outputs' = [tool_outputs EXCEPT ![c] = << >>]
                   /\ action_index' = [action_index EXCEPT ![c] = 1]
                   /\ trace' = [trace EXCEPT ![c] =
                        @ \o << fetched,
                                [op |-> "call_functions",
                                 run_id |-> assistant_response[c],
                                 tool_calls |-> run.required_action] >>]
              ELSE /\ goto(c, IF status_completed(run.status)
                              THEN "messages.list" ELSE "runs.retrieve")
                   /\ log(c, fetched)
                   /\ UNCHANGED << required_actions, tool_outputs,
                                   action_index >>
    /\ UNCHANGED << SERPAPI, engine_vars, assistant_response, requests_sent,
                    returned, search_call >>

\* a faulty variant of handler_of: every function name is taken for a search
handler_of_any(func_name) == "get_products"

\* the handler call_functions picks for a function name: "" for none
handler_of(func_name) == IF func_name = "search_ebay" THEN "get_products" ELSE ""

\* a faulty variant of tool_output: the id of the first tool call of the
\* batch is used for every output
tool_output_first_id(action, output) ==
    [tool_call_id |-> [action.id EXCEPT ![4] = 1], output |-> output]

\* the tool output built for a tool call from what its handler returned
tool_output(action, output) == [tool_call_id |-> action.id, output |-> output]

\* a faulty variant of append: the list is replaced, not extended
append_overwrites(outputs, item) == << item >>

\* tool_outputs.append(item)
append(outputs, item) == Append(outputs, item)

\* one iteration of the for loop of call_functions over action, when the
\* search provider answers with response: the exception raised ("" for none),
\* the tool outputs appended and the HTTP requests issued
call_functions_body(action, api_key, response) ==
    LET func_name == action.function.name
        arguments == json_loads(action.function.arguments)
    IN  IF arguments.raised # ""
        THEN [raised |-> arguments.raised, appended |-> << >>, requests |-> 0]
        ELSE IF handler_of(func_name) = "get_products"
        THEN IF "query" \notin DOMAIN arguments.value
             THEN [raised |-> "KeyError", appended |-> << >>, requests |-> 0]
             ELSE LET output == get_products(arguments.value.query, api_key,
                                             response)
                  IN  [raised |-> output.raised,
                       appended |-> IF output.raised # "" THEN << >>
                                    ELSE << tool_output(action, output.ret) >>,
                       requests |-> Len(output.requests)]
        ELSE [raised |-> "ValueError", appended |-> << >>, requests |-> 0]

\* a faulty variant of call_functions_raises: what was collected is submitted
\* before the exception leaves
call_functions_raises_after_submit(c, error) ==
    /\ raise(c, error)
    /\ log(c, [op |-> "raise", error |-> error])
    /\ set_status(assistant_response[c], "queued", << >>)
    /\ submissions' =
         Append(submissions,
                [run_id |-> assistant_response[c], by |-> c,
                 tool_calls |-> runs[assistant_response[c]].required_action,
                 tool_outputs |-> tool_outputs[c]])
    /\ UNCHANGED << tool_outputs, action_index >>

\* an exception leaves call_functions, and with it process_query: the outputs
\* collected are dropped with the frame and nothing reaches the engine
call_functions_raises(c, error) ==
    /\ raise(c, error)
    /\ log(c, [op |-> "raise", error |-> error])
    /\ UNCHANGED << runs, submissions, tool_outputs, action_index >>

\* the next iteration of the for loop of call_functions, the search provider
\* answering with one of responses
call_functions_step(c, responses) ==
    /\ pc[c] = "call_functions"
    /\ action_index[c] <= Len(required_actions[c])
    /\ \E response \in responses :
         LET action == required_actions[c][action_index[c]]
             body == call_functions_body(action, SERPAPI, response)
         IN  /\ requests_sent' = requests_sent + body.requests
             /\ IF body.raised # ""
                THEN call_functions_raises(c, body.raised)
                ELSE /\ tool_outputs' =
                          [tool_outputs EXCEPT ![c] =
                             IF body.appended = << >> THEN @
                             ELSE append(@, body.appended[1])]
                     /\ action_index' = [action_index EXCEPT ![c] = @ + 1]
                     /\ UNCHANGED << pc, returned, trace, runs, submissions >>
    /\ UNCHANGED << SERPAPI, conversation_thread, issued, assistant_response,
                    response_status, required_actions, polls, search_call >>

\* the end of call_functions: runs.submit_tool_outputs with the run id given
\* and everything collected; back in the loop, the status retrieved is not
\* "completed", so the loop continues
submit_tool_outputs(c) ==
    /\ pc[c] = "call_functions"
    /\ action_index[c] > Len(required_actions[c])
    /\ LET run_id == assistant_response[c]
           call == [op |-> "runs.submit_tool_outputs", run_id |-> run_id,
                    tool_outputs |-> tool_outputs[c]]
       IN  IF engine_accepts(run_id)
           THEN /\ set_status(run_id, "queued", << >>)
                /\ submissions' =
                     Append(submissions,
                            [run_id |-> run_id, by |-> c,
                             tool_calls |-> runs[run_id].required_action,
                             tool_outputs |-> tool_outputs[c]])
                /\ log(c, call)
                /\ goto(c, "runs.retrieve")
                /\ UNCHANGED returned
           ELSE /\ raise(c, "BadRequestError")
                /\ trace' = [trace EXCEPT ![c] =
                     @ \o << call, [op |-> "raise", error |-> "BadRequestError"] >>]
                /\ UNCHANGED << runs, submissions >>
    /\ UNCHANGED << SERPAPI, conversation_thread, issued, assistant_response,
                    response_status, required_actions, tool_outputs,
                    action_index, requests_sent, polls, search_call >>

\* a faulty variant of messages_list: oldest first
messages_list_oldest_first(thread) == thread

\* threads.messages.list: the thread's messages, newest first
messages_list(thread) == [i \in 1..Len(thread) |-> thread[Len(thread) + 1 - i]]

\* the completed branch: list the messages and return the text of data[0]
return_response(c) ==
    /\ pc[c] = "messages.list"
    /\ LET data == messages_list(conversation_thread)
           final_response == data[1]
           response == final_response.text
       IN  /\ returned' = [returned EXCEPT ![c] =
                             [kind |-> "value", value |-> response]]
           /\ trace' = [trace EXCEPT ![c] =
                          @ \o << [op |-> "messages.list"],
                                  [op |-> "return", value |-> response,
                                   message |-> final_response] >>]
    /\ goto(c, "done")
    /\ UNCHANGED << SERPAPI, engine_vars, assistant_response, response_status,
                    required_actions, tool_outputs, action_index, requests_sent,
                    polls, search_call >>

\* a step of process_query called for caller c, the search provider answering
\* with one of responses
process_query(c, responses) ==
    \/ messages_create(c)
    \/ runs_create(c)
    \/ runs_retrieve(c)
    \/ call_functions_step(c, responses)
    \/ submit_tool_outputs(c)
    \/ return_response(c)

\* a step of the conversation engine, asking for tool calls out of batches
engine(batches) ==
    \/ \E run_id \in 1..Len(runs) : engine_start(run_id)
    \/ \E run_id \in 1..Len(runs), batch \in batches :
         engine_requires_action(run_id, batch)
    \/ \E run_id \in 1..Len(runs) : engine_complete(run_id)
    \/ \E run_id \in 1..Len(runs), status \in Failure :
         engine_fail(run_id, status)

\* one query at a time, against an engine that may ask for any batch
Next == process_query("c1", DispatchResponses) \/ engine(Batches)

Spec == Init /\ [][Next]_vars

\* the same, the caller's thread being scheduled: a call of process_query that
\* can take a step (the sleep ends, an engine call returns) takes one
FairSpec == Spec /\ WF_vars(process_query("c1", DispatchResponses))

\* the batches of one well-formed search_ebay call
SearchBatches ==
    { b \in Batches :
        /\ Len(b) = 1
        /\ b[1].name = "search_ebay"
        /\ b[1].arguments = "{\"query\": \"red mug\"}" }

\* the answers of a search provider that is up
SearchResponses == { r \in DispatchResponses : r.raises = "" /\ r.status_code = 200 }

\* the UI lets every caller ask at once, on the one shared thread; the engine
\* asks each run for one search at most, the searches succeed and no run fails
NextConcurrent ==
    \/ \E c \in Callers : process_query(c, SearchResponses)
    \/ \E run_id \in 1..Len(runs) : engine_start(run_id)
    \/ \E run_id \in 1..Len(runs), batch \in SearchBatches :
         /\ \A n \in 1..Len(issued) : issued[n].run_id # run_id
         /\ engine_requires_action(run_id, batch)
    \/ \E run_id \in 1..Len(runs) : engine_complete(run_id)

\* with the search credential set
InitConcurrent == Init /\ SERPAPI = Str("serp-key")

SpecConcurrent == InitConcurrent /\ [][NextConcurrent]_vars

(***************************************************************************)
(* get_products on its own: one call, over every credential, query and     *)
(* answer of the search provider.                                          *)
(***************************************************************************)
SearchInit ==
    /\ SERPAPI \in Credentials
    /\ NoConversation
    /\ \E query \in Queries, response \in Responses :
         search_call = [state |-> "called", query |-> query,
                        response |-> response]

\* the call returns (or raises)
search_returns ==
    /\ search_call.state = "called"
    /\ search_call' =
         [state |-> "returned", query |-> search_call.query,
          response |-> search_call.response,
          result |-> get_products(search_call.query, SERPAPI,
                                  search_call.response)]
    /\ UNCHANGED << SERPAPI, engine_vars, caller_vars >>

SearchNext == search_returns

SearchSpec == SearchInit /\ [][SearchNext]_vars

(***************************************************************************)
(* What the claims speak of.                                               *)
(***************************************************************************)
\* the statuses caller c has retrieved, in order
IsPoll(event) == event.op = "runs.retrieve"
Observed(c) ==
    LET fetched == SelectSeq(trace[c], IsPoll)
    IN  [i \in 1..Len(fetched) |-> fetched[i].status]

\* the positions in c's trace of the events of one kind
Positions(c, op) == { i \in 1..Len(trace[c]) : trace[c][i].op = op }

\* the ids asked for by a batch of tool calls, and answered by tool outputs
call_ids(tool_calls) == [i \in 1..Len(tool_calls) |-> tool_calls[i].id]
answered_ids(outputs) == [i \in 1..Len(outputs) |-> outputs[i].tool_call_id]

\* C1: call_functions is entered only right after a status fetch that gave
\* requires_action, every such fetch is followed by exactly one call of
\* call_functions before the next fetch, and a caller that has observed
\* queued, in_progress, requires_action, in_progress, completed has called
\* call_functions exactly once, between its third and fourth fetch.
C1_DispatchOnlyOnRequiresAction ==
    \A c \in Callers :
      /\ \A i \in Positions(c, "call_functions") :
           /\ i > 1
           /\ trace[c][i - 1].op = "runs.retrieve"
           /\ trace[c][i - 1].status = "requires_action"
           /\ trace[c][i - 1].run_id = trace[c][i].run_id
      /\ \A i \in Positions(c, "runs.retrieve") :
           trace[c][i].status = "requires_action" =>
             /\ i < Len(trace[c])
             /\ trace[c][i + 1].op = "call_functions"
             /\ \A j \in Positions(c, "call_functions") :
                  j > i + 1 => \E k \in Positions(c, "runs.retrieve") :
                                 i < k /\ k < j
      /\ Observed(c) = << "queued", "in_progress", "requires_action",
                          "in_progress", "completed" >> =>
           \E i \in Positions(c, "call_functions") :
             /\ Positions(c, "call_functions") = {i}
             /\ Cardinality({ k \in Positions(c, "runs.retrieve") : k < i }) = 3

\* the scenario of C1 has run to its end
C1_Witness ==
    \E c \in Callers :
      /\ Observed(c) = << "queued", "in_progress", "requires_action",
                          "in_progress", "completed" >>
      /\ pc[c] = "done"

\* the call of call_functions at position i of c's trace has returned
\* without raising
Dispatched(c, i) ==
    /\ trace[c][i].op = "call_functions"
    /\ i < Len(trace[c])
    /\ trace[c][i + 1].op # "raise"

\* C2: every call of call_functions that returns without raising has made
\* exactly one submit_tool_outputs call, for the run id it was given, and the
\* outputs of that call answer the tool calls it was given one for one: the
\* same number, the same call ids, in the same order.
C2_OneResultPerRequestInOrder ==
    /\ \A c \in Callers :
         /\ \A i \in Positions(c, "call_functions") :
              Dispatched(c, i) =>
                /\ trace[c][i + 1].op = "runs.submit_tool_outputs"
                /\ trace[c][i + 1].run_id = trace[c][i].run_id
                /\ answered_ids(trace[c][i + 1].tool_outputs)
                     = call_ids(trace[c][i].tool_calls)
         /\ \A j \in Positions(c, "runs.submit_tool_outputs") :
              j > 1 /\ trace[c][j - 1].op = "call_functions"
    /\ \A n \in 1..Len(submissions) :
         answered_ids(submissions[n].tool_outputs)
           = call_ids(submissions[n].tool_calls)

\* a batch of two tool calls has been dispatched and submitted
C2_Witness ==
    \E c \in Callers : \E i \in Positions(c, "call_functions") :
      /\ Dispatched(c, i)
      /\ Len(trace[c][i].tool_calls) = 2
      /\ Len(submissions) = 1

\* the tool outputs the engine has taken for call id over all submissions
Answers(id) ==
    { << n, k >> \in (1..Len(submissions)) \X (1..MaxToolCalls) :
        /\ k <= Len(submissions[n].tool_outputs)
        /\ submissions[n].tool_outputs[k].tool_call_id = id }

\* the run of batch n of issued still waits for the outputs of that batch
Waiting(n) ==
    /\ runs[issued[n].run_id].status = "requires_action"
    /\ runs[issued[n].run_id].required_action = issued[n].tool_calls

\* C3: over the life of a run no call id is answered twice, and once the run
\* is past the requires_action of a batch every call id of that batch has
\* been answered exactly once.
C3_EachRequestAnsweredOnce ==
    \A n \in 1..Len(issued) : \A k \in 1..Len(issued[n].tool_calls) :
      LET id == issued[n].tool_calls[k].id
      IN  /\ Cardinality(Answers(id)) <= 1
          /\ ~Waiting(n) => Cardinality(Answers(id)) = 1

\* a run has gone past requires_action, to completed, with its two tool
\* calls answered
C3_Witness ==
    \E n \in 1..Len(issued) :
      /\ Len(issued[n].tool_calls) = 2
      /\ runs[issued[n].run_id].status = "completed"
      /\ \A k \in 1..2 :
           Cardinality(Answers(issued[n].tool_calls[k].id)) = 1

\* the runs of the thread that are queued, in progress or waiting for outputs
ActiveRuns == { run_id \in 1..Len(runs) : runs[run_id].status \in Active }

\* C4: at most one run of the thread is active at a time, whatever the
\* callers do.
C4_AtMostOneActiveRun == Cardinality(ActiveRuns) <= 1

\* the last event of c's trace
LastEvent(c) == trace[c][Len(trace[c])]

\* C5: after a status fetch that gave completed the caller lists the messages
\* and returns, with no further fetch and no call of call_functions; the value
\* returned is the text of the newest message of the thread; and a value is
\* returned only right after a fetch that gave completed.
C5_CompletedReturnsNewestMessage ==
    \A c \in Callers :
      /\ \A i \in Positions(c, "runs.retrieve") :
           trace[c][i].status = "completed" =>
             /\ pc[c] \in {"messages.list", "done"}
             /\ \A j \in (i + 1)..Len(trace[c]) :
                  trace[c][j].op \in {"messages.list", "return"}
             /\ pc[c] = "done" => Len(trace[c]) = i + 2
      /\ \A j \in Positions(c, "return") :
           /\ j > 2
           /\ trace[c][j - 1].op = "messages.list"
           /\ trace[c][j - 2].op = "runs.retrieve"
           /\ trace[c][j - 2].status = "completed"
           /\ trace[c][j].value
                = conversation_thread[Len(conversation_thread)].text
           /\ returned[c] = [kind |-> "value", value |-> trace[c][j].value]
      /\ returned[c].kind = "value" =>
           /\ pc[c] = "done"
           /\ LastEvent(c).op = "return"

\* a caller has returned the assistant's reply after a tool call
C5_Witness ==
    \E c \in Callers :
      /\ pc[c] = "done"
      /\ returned[c] = [kind |-> "value",
                        value |-> reply_text(assistant_response[c])]
      /\ Len(submissions) = 1

\* C6: once the caller's run is failed, cancelled or expired the caller
\* stays in the polling loop: every fetch that gives such a status is
\* followed by nothing but further fetches, the next fetch is always
\* possible, and the call neither returns nor raises.
C6_FailureStatusPolledForever ==
    \A c \in Callers :
      /\ \A i \in Positions(c, "runs.retrieve") :
           trace[c][i].status \in Failure =>
             /\ \A j \in i..Len(trace[c]) :
                  /\ trace[c][j].op = "runs.retrieve"
                  /\ trace[c][j].status = trace[c][i].status
             /\ pc[c] = "runs.retrieve"
             /\ returned[c].kind = "none"
      /\ ( /\ assistant_response[c] # 0
           /\ runs[assistant_response[c]].status \in Failure ) =>
             /\ pc[c] = "runs.retrieve"
             /\ returned[c].kind = "none"
             /\ polls < MaxPolls => ENABLED runs_retrieve(c)

\* a caller has fetched a failure status three times over and polls on
C6_Witness ==
    \E c \in Callers : \E status \in Failure :
      /\ Len(Observed(c)) >= 4
      /\ \A i \in 2..Len(Observed(c)) : Observed(c)[i] = status
      /\ pc[c] = "runs.retrieve"

\* the positions in a batch of the tool calls for a function that is not
\* search_ebay
Unregistered(tool_calls) ==
    { k \in 1..Len(tool_calls) : tool_calls[k].function.name # "search_ebay" }

\* C7: a call of call_functions on a batch that holds a tool call for an
\* unregistered function never gets past that tool call and never submits:
\* while it runs the for loop can still step, and when it ends it has raised.
C7_UnregisteredFunctionRaises ==
    \A c \in Callers : \A i \in Positions(c, "call_functions") :
      Unregistered(trace[c][i].tool_calls) # {} =>
        \/ /\ i = Len(trace[c])
           /\ pc[c] = "call_functions"
           /\ \E k \in Unregistered(required_actions[c]) : action_index[c] <= k
           /\ ENABLED call_functions_step(c, DispatchResponses)
        \/ /\ i + 1 = Len(trace[c])
           /\ trace[c][i + 1].op = "raise"
           /\ pc[c] = "raised"
           /\ returned[c] = [kind |-> "error", error |-> trace[c][i + 1].error]

\* call_functions has raised ValueError on a batch whose first tool call is a
\* search it has already handled
C7_Witness ==
    \E c \in Callers :
      /\ pc[c] = "raised"
      /\ returned[c] = [kind |-> "error", error |-> "ValueError"]
      /\ Len(tool_outputs[c]) = 1
      /\ Unregistered(required_actions[c]) = {2}

\* C8: when the for loop of call_functions raises, the engine gets no tool
\* output of that batch, not even those collected before the exception, and
\* the run still waits in requires_action for the same tool calls.
C8_NoPartialSubmission ==
    \A c \in Callers : \A i \in Positions(c, "call_functions") :
      ( /\ i < Len(trace[c])
        /\ trace[c][i + 1].op = "raise" ) =>
          /\ Positions(c, "runs.submit_tool_outputs") \cap (i..Len(trace[c])) = {}
          /\ \A n \in 1..Len(submissions) :
               submissions[n].tool_calls # trace[c][i].tool_calls
          /\ \A k \in 1..Len(trace[c][i].tool_calls) :
               Answers(trace[c][i].tool_calls[k].id) = {}
          /\ runs[trace[c][i].run_id].status = "requires_action"
          /\ runs[trace[c][i].run_id].required_action = trace[c][i].tool_calls

\* call_functions has raised with one output already collected
C8_Witness ==
    \E c \in Callers :
      /\ pc[c] = "raised"
      /\ LastEvent(c).op = "raise"
      /\ Len(tool_outputs[c]) = 1
      /\ tool_outputs[c][1].output # None

\* the provider did not answer, or answered with an HTTP error status
ProviderFailed(response) ==
    \/ response.raises # ""
    \/ response.status_code >= 400

\* C9: with the credential set, a call of get_products whose request the
\* provider fails returns None, raises nothing and has issued exactly one
\* HTTP request, for the query it was given.
C9_ProviderFailureGivesNone ==
    ( /\ search_call.state = "returned"
      /\ Truthy(SERPAPI)
      /\ ProviderFailed(search_call.response) ) =>
        /\ search_call.result.ret = None
        /\ search_call.result.raised = ""
        /\ Len(search_call.result.requests) = 1
        /\ search_call.result.requests[1].params._nkw = search_call.query

\* get_products has returned from a request that timed out
C9_Witness ==
    /\ search_call.state = "returned"
    /\ Truthy(SERPAPI)
    /\ search_call.response.raises = "Timeout"
    /\ search_call.result.ret = None

\* every tool call of the batch is a search_ebay call with a query
AllSearches(tool_calls) ==
    \A k \in 1..Len(tool_calls) :
      /\ tool_calls[k].function.name = "search_ebay"
      /\ json_loads(tool_calls[k].function.arguments).raised = ""
      /\ "query" \in DOMAIN json_loads(tool_calls[k].function.arguments).value

\* C10: without the SERPAPI credential get_products returns None for every
\* query and every state of the provider, raises nothing and issues no HTTP
\* request (looked at once, before the first run); and call_functions still
\* collects one output, None, for each search_ebay call and submits them.
C10_NoCredentialGivesNone ==
    /\ runs = << >> =>
         \A api_key \in { k \in Credentials : ~Truthy(k) } :
           \A query \in Queries, response \in Responses :
             get_products(query, api_key, response)
               = [ret |-> None, raised |-> "", requests |-> << >>]
    /\ ~Truthy(SERPAPI) =>
         /\ requests_sent = 0
         /\ \A c \in Callers :
              /\ \A k \in 1..Len(tool_outputs[c]) :
                   tool_outputs[c][k] =
                     [tool_call_id |-> required_actions[c][k].id,
                      output |-> None]
              /\ \A i \in Positions(c, "call_functions") :
                   AllSearches(trace[c][i].tool_calls) =>
                     \/ /\ i = Len(trace[c])
                        /\ pc[c] = "call_functions"
                        /\ Len(tool_outputs[c]) = action_index[c] - 1
                     \/ /\ i < Len(trace[c])
                        /\ trace[c][i + 1].op = "runs.submit_tool_outputs"
                        /\ trace[c][i + 1].tool_outputs =
                             [k \in 1..Len(trace[c][i].tool_calls) |->
                                [tool_call_id |-> trace[c][i].tool_calls[k].id,
                                 output |-> None]]

\* without the credential, two searches have been answered with None
C10_Witness ==
    /\ ~Truthy(SERPAPI)
    /\ Len(submissions) = 1
    /\ Len(submissions[1].tool_outputs) = 2
    /\ \A k \in 1..2 : submissions[1].tool_outputs[k].output = None

\* the provider answered the call's request with a success status
Answered(call) ==
    /\ call.state = "returned"
    /\ Truthy(SERPAPI)
    /\ call.response.raises = ""
    /\ call.response.status_code < 400

\* the result list of an answer (empty when the body holds none) and the
\* number of its entries that are listed
ResultsOf(call) ==
    IF "organic_results" \in DOMAIN call.response.json
    THEN call.response.json.organic_results ELSE << >>
Listed(call) == IF Len(ResultsOf(call)) < 3 THEN Len(ResultsOf(call)) ELSE 3

\* C11: for a successful answer with n results, get_products returns text
\* made of exactly min(n, 3) blocks of four pieces, block i naming the title,
\* link and thumbnail of the provider's i-th result; the text is empty when
\* n = 0.
C11_FirstThreeInOrder ==
    Answered(search_call) =>
      LET results == ResultsOf(search_call)
          out == search_call.result
      IN  /\ out.raised = ""
          /\ out.ret.type = "markdown"
          /\ Len(out.ret.pieces) = 4 * Listed(search_call)
          /\ Len(results) = 0 => out.ret.pieces = << >>
          /\ \A i \in 1..Listed(search_call) :
               /\ out.ret.pieces[4 * (i - 1) + 1] =
                    "- **Title:** [" \o results[i].title.value \o "]("
                      \o results[i].link.value \o ")\n"
               /\ out.ret.pieces[4 * (i - 1) + 3] =
                    "  - **Link:** [View on eBay](" \o results[i].link.value \o ")\n"
               /\ out.ret.pieces[4 * (i - 1) + 4] =
                    "  - **Image:** ![Image](" \o results[i].thumbnail.value
                      \o ")\n\n"

\* four results, the first three all different, have been cut to three blocks
C11_Witness ==
    /\ Answered(search_call)
    /\ Len(ResultsOf(search_call)) = 4
    /\ Cardinality({ ResultsOf(search_call)[i] : i \in 1..3 }) = 3
    /\ Len(search_call.result.ret.pieces) = 12

\* C12: in the text get_products returns, the price piece of a listed result
\* without a price field is exactly "  - **Price:** N/A\n", and that of a
\* result with a raw price is the raw string, unchanged.
C12_MissingPriceIsNA ==
    Answered(search_call) =>
      \A i \in 1..Listed(search_call) :
        LET result == ResultsOf(search_call)[i]
            piece == search_call.result.ret.pieces[4 * (i - 1) + 2]
        IN  /\ "price" \notin DOMAIN result => piece = "  - **Price:** N/A\n"
            /\ ( /\ "price" \in DOMAIN result
                 /\ "raw" \in DOMAIN result.price ) =>
                   piece = "  - **Price:** " \o result.price.raw.value \o "\n"

\* a listing without a price and one with a price have both been listed
C12_Witness ==
    /\ Answered(search_call)
    /\ \E i, j \in 1..Listed(search_call) :
         /\ "price" \notin DOMAIN ResultsOf(search_call)[i]
         /\ "price" \in DOMAIN ResultsOf(search_call)[j]
         /\ "raw" \in DOMAIN ResultsOf(search_call)[j].price
         /\ search_call.result.ret.pieces[4 * (i - 1) + 2] = "  - **Price:** N/A\n"

\* C13: when call_functions raises on a batch that asks for an unregistered
\* function, the exception leaves process_query: the call has ended with that
\* error and no value, the raise is the last thing in its trace (no fetch,
\* dispatch or submission after it), no step of the call is possible any
\* more, and the error is ValueError when the loop stopped at an unregistered
\* function whose arguments parse.
C13_UnknownFunctionAbortsQuery ==
    \A c \in Callers : \A i \in Positions(c, "call_functions") :
      ( /\ Unregistered(trace[c][i].tool_calls) # {}
        /\ i < Len(trace[c]) ) =>
          /\ trace[c][i + 1].op = "raise"
          /\ Len(trace[c]) = i + 1
          /\ pc[c] = "raised"
          /\ returned[c] = [kind |-> "error", error |-> trace[c][i + 1].error]
          /\ ~ENABLED process_query(c, DispatchResponses)
          /\ Positions(c, "return") = {}
          /\ runs[trace[c][i].run_id].status = "requires_action"
          /\ ( /\ action_index[c] \in Unregistered(required_actions[c])
               /\ json_loads(required_actions[c][action_index[c]]
                               .function.arguments).raised = "" ) =>
                 returned[c].error = "ValueError"

\* a query has ended with ValueError on a batch of one unregistered function,
\* after two fetches
C13_Witness ==
    \E c \in Callers :
      /\ returned[c] = [kind |-> "error", error |-> "ValueError"]
      /\ Len(required_actions[c]) = 1
      /\ Unregistered(required_actions[c]) = {1}
      /\ Len(Observed(c)) = 2

\* the user messages of the thread that carry c's query
UserTurns(c) ==
    { n \in 1..Len(conversation_thread) :
        /\ conversation_thread[n].role = "user"
        /\ conversation_thread[n].text = user_query[c] }

\* C14: a call of process_query sends its query as one user message, first,
\* then creates one run, second, and only then fetches a status: its trace
\* starts with messages.create and runs.create and holds neither again, the
\* thread holds its query once and the engine one run for it.
C14_OneMessageThenOneRun ==
    /\ \A c \in Callers :
         /\ Positions(c, "messages.create") = IF Len(trace[c]) >= 1 THEN {1} ELSE {}
         /\ Positions(c, "runs.create") = IF Len(trace[c]) >= 2 THEN {2} ELSE {}
         /\ \A i \in Positions(c, "runs.retrieve") : i > 2
         /\ Len(trace[c]) >= 1 => trace[c][1].content = user_query[c]
         /\ Cardinality(UserTurns(c)) = IF pc[c] = "idle" THEN 0 ELSE 1
         /\ pc[c] \in {"idle", "runs.create"} <=> assistant_response[c] = 0
    /\ Len(runs) = Cardinality({ c \in Callers : assistant_response[c] # 0 })

\* a call has sent its message, created its run and fetched its status
C14_Witness ==
    \E c \in Callers :
      /\ Len(Observed(c)) >= 1
      /\ Cardinality(UserTurns(c)) = 1
      /\ Len(runs) = 1

\* the run caller c created is completed
OwnRunCompleted(c) ==
    /\ assistant_response[c] # 0
    /\ runs[assistant_response[c]].status = "completed"

\* C15: under fair scheduling of the caller, once the run it created is
\* completed (which takes every function asked for to be registered and every
\* call to have gone through) the call returns a reply, as long as the model
\* leaves it one more status fetch.
C15_CompletedRunEventuallyReturns ==
    \A c \in Callers :
      ( /\ OwnRunCompleted(c)
        /\ polls < MaxPolls \/ pc[c] = "messages.list" )
      ~> ( /\ pc[c] = "done"
           /\ returned[c].kind = "value" )

\* a call has returned after two rounds of tool calls
C15_Witness ==
    \E c \in Callers :
      /\ OwnRunCompleted(c)
      /\ pc[c] = "done"
      /\ returned[c].kind = "value"
      /\ Len(submissions) = 2

\* the id the engine gave the run caller c created (0 before it has one)
OwnRun(c) == IF Len(trace[c]) >= 2 THEN trace[c][2].run_id ELSE 0

\* C16: whatever the interleaving of the callers, every status fetch, every
\* call of call_functions and every submit_tool_outputs call of a caller
\* names the run that caller created, the tool calls it dispatches are those
\* of that run, no two callers have the same run, and every submission the
\* engine took for a run came from the caller that created it.
C16_OwnRunOnly ==
    /\ \A c \in Callers : \A i \in 1..Len(trace[c]) :
         trace[c][i].op \in {"runs.retrieve", "call_functions",
                             "runs.submit_tool_outputs"} =>
           /\ trace[c][i].run_id = OwnRun(c)
           /\ trace[c][i].op = "call_functions" =>
                \A k \in 1..Len(trace[c][i].tool_calls) :
                  trace[c][i].tool_calls[k].id[2] = OwnRun(c)
    /\ \A c, d \in Callers : (c # d /\ OwnRun(c) # 0) => OwnRun(c) # OwnRun(d)
    /\ \A n \in 1..Len(submissions) :
         submissions[n].run_id = OwnRun(submissions[n].by)

\* both callers have dispatched and submitted tool outputs, each for its run
C16_Witness ==
    /\ Len(submissions) = 2
    /\ submissions[1].by # submissions[2].by
    /\ submissions[1].run_id # submissions[2].run_id

\* C17: the value a call of process_query returns is the text of the
\* assistant message its own run produced, also when two calls overlap.
C17_ReturnsOwnReply ==
    \A c \in Callers :
      returned[c].kind = "value" => returned[c].value = reply_text(OwnRun(c))

====
